---- MODULE Spec2Model ----
(***************************************************************************)
(* A model of the voice front-end of the email-manager extension.          *)
(*                                                                         *)
(* Part I  - the streaming content script (plasmo-my-email-ai/src/         *)
(*           popup.tsx, lines 196-1075): MediaRecorder chunks sent over a  *)
(*           WebSocket, reconnection, start/stop, inbound messages.        *)
(* Part II - the speech-recognition content script and its service worker  *)
(*           (unnamed/part_000): the TTS queue, the recognition restarts   *)
(*           and the duplicate filter of handleNluQuery.                   *)
(*                                                                         *)
(* Part III - the service workers: the enabled flag of background.ts and   *)
(*           its storage calls, and the browser action and follow-up of    *)
(*           handleNluQuery (unnamed/part_000).                            *)
(*                                                                         *)
(* Handlers run to completion on one event loop, so each handler is one    *)
(* action.  A handler is written as an operator from the script's state    *)
(* (a record of its globals and of the browser objects they refer to) to   *)
(* the state it leaves, so that a handler calling another one is operator  *)
(* composition.  An async function is cut at its awaits.                   *)
(***************************************************************************)
EXTENDS Integers, Sequences, FiniteSets, TLC

\* ------------------------------------------------------------------ bounds
MaxClosing == 1           \* superseded sockets per close code awaiting their close event
MaxPendingStarts == 1     \* startVoiceRecognition calls awaiting getUserMedia
MaxPendingStops == 1      \* stopVoiceRecognition calls in their 100 ms wait
MaxReconnectTimers == 1   \* pending reconnect timers
MaxDeferred == 1          \* pending 500 ms deferred sends
MaxAttempts == 6          \* sockets opened to reconnect without an open one
MaxQueue == 2             \* announcements waiting in ttsQueue
MaxUtterances == 4        \* utterances speechSynthesis holds a callback for
MaxRequests == 2          \* TTS requests the service worker makes
MaxToggles == 1           \* toggle_feature messages
EnvPeriod == 5            \* 100 ms steps between two turns of the environment
BinCount == 2             \* frequency bins the analyser reports (dataArray.length)
MaxStorageOps == 3        \* storage calls of the service worker in flight
MaxCount == 3             \* elements a COUNT_ELEMENTS action finds
FrameStep == 1000         \* ms by which the wall clock advances in one step
MaxNow == 5000            \* ms of wall-clock time a behaviour covers

\* ------------------------------------------------------- program constants
MAX_RECONNECT_ATTEMPTS == 5
BackoffUnit == 1000
BackoffCap == 5000
VoiceThreshold == 25
SilenceWindow == 2000

Min2(a, b) == IF a < b THEN a ELSE b

VARIABLES
  \* globals of the streaming content script
  isRecording, isProcessingCommand, shouldSendAudio, isWebSocketConnected,
  ws,                \* "null", or the readyState of the WebSocket ws refers to
  mediaRecorder,     \* "null", or the state of the MediaRecorder it refers to
  handler,           \* the ondataavailable of that recorder: "full", "lite", "none"
  audioStream,       \* "null", or "active" / "ended": the stream it refers to
  audioContext,      \* TRUE when an AudioContext is held
  analyser,          \* TRUE when analyser and dataArray are set
  isVoiceDetected, lastVoiceTime,
  reconnectAttempts,
  \* browser objects no global refers to any more, which still raise events
  closing,           \* [CloseCodes -> Nat]: sockets closed by the script, close event due
  orphans,           \* handlers of recorders still recording on a leaked stream
  finPending,        \* handlers of stopped recorders whose last chunk event is due
  speaking,          \* speechSynthesis is speaking a reply of showAIResponse
  now,               \* Date.now(), in ms since the script was loaded
  \* continuations and timers
  gumPending,        \* startVoiceRecognition calls awaiting getUserMedia
  stopPending,       \* stopVoiceRecognition calls awaiting their 100 ms
  reconnectTimers,   \* pending setTimeout callbacks of ws.onclose
  deferredSends,     \* pending 500 ms setTimeout callbacks of ondataavailable
  attempts,          \* history: sockets opened to reconnect since the last open
  staleTimers,       \* history: pending reconnect timers set before the last stop
  monitoring,        \* a requestAnimationFrame callback of monitorVoiceActivity is due
  out                \* what the last handler sent out and scheduled

streamVars == <<isRecording, isProcessingCommand, shouldSendAudio,
                isWebSocketConnected, ws, mediaRecorder, handler, audioStream,
                audioContext, analyser, isVoiceDetected, lastVoiceTime,
                reconnectAttempts, closing, orphans, finPending,
                speaking, now, gumPending, stopPending, reconnectTimers,
                deferredSends, attempts, staleTimers, monitoring, out>>

VARIABLES
  \* globals of the speech-recognition content script (part_000, content.js)
  extensionIsEnabled, isRecognizing, ttsQueue, isProcessingTTS,
  ttsTimeoutId,      \* "null", "armed" (its watchdog is pending) or "expired"
  pausedForTTS,      \* recognition.__pausedForTTS
  manualStop,        \* recognition.__manualStop
  \* browser objects
  recState,          \* the recognizer: "idle", "starting", "running", "stopping"
  live,              \* utterances handed to speechSynthesis and not finished
  dead,              \* utterances removed by cancel() whose callback may still come
  timers,            \* pending setTimeout callbacks: [k: kind, t: ms left, x: text]
  \* globals of the service worker (part_000, background.js)
  lastTTSText,
  sinceTTS,          \* ms since lastTTSTime, counted up to the window
  \* the environment's budget and what the last handler did
  loaded,            \* the initial chrome.storage read has called back
  nRequests,         \* TTS requests made so far
  nToggles,          \* toggle_feature messages so far
  clock,             \* 100 ms steps since the environment could last act
  tout

ttsVars == <<extensionIsEnabled, isRecognizing, ttsQueue, isProcessingTTS,
             ttsTimeoutId, pausedForTTS, manualStop, recState, live, dead,
             timers, lastTTSText, sinceTTS, loaded, nRequests, nToggles, clock, tout>>

VARIABLES
  \* the service worker of the streaming extension (background.ts)
  isEnabled,         \* its in-memory flag
  localStore,        \* isEnabled in chrome.storage.local: "unset", "true", "false"
  plasmoStore,       \* isEnabled in the @plasmohq/storage instance, likewise
  storageOps,        \* storage calls that have not completed: [k, v, prev]
  expected,          \* history: plasmoStore, had the handlers run one after the other
  bout,              \* what the last handler of the service worker sent out
  \* the service worker of the speech-recognition extension (part_000)
  followUp           \* the browser action of handleNluQuery and its follow-up

bgVars == <<isEnabled, localStore, plasmoStore, storageOps, expected, bout, followUp>>

vars == <<streamVars, ttsVars, bgVars>>

\* Close codes as ws.onclose tells them apart: 1000 (a close with the code of
\* stopVoiceRecognition that completed) and any other, kept as 1006: a
\* connection that failed or was dropped, or close() without a code (1005).
CloseCodes == {1000, 1006}
Handlers == {"full", "lite"}

\* The script's state as one record.
S == [isRecording |-> isRecording, isProcessingCommand |-> isProcessingCommand,
      shouldSendAudio |-> shouldSendAudio,
      isWebSocketConnected |-> isWebSocketConnected, ws |-> ws,
      mediaRecorder |-> mediaRecorder, handler |-> handler,
      audioStream |-> audioStream, audioContext |-> audioContext,
      analyser |-> analyser, isVoiceDetected |-> isVoiceDetected,
      lastVoiceTime |-> lastVoiceTime, monitoring |-> monitoring, now |-> now,
      reconnectAttempts |-> reconnectAttempts, closing |-> closing,
      orphans |-> orphans, finPending |-> finPending, speaking |-> speaking,
      gumPending |-> gumPending, stopPending |-> stopPending,
      reconnectTimers |-> reconnectTimers, deferredSends |-> deferredSends,
      out |-> <<>>]

\* An outbound effect of a handler: a frame on the socket, a message to the
\* background script, a timer it set (n: the delay in ms).
Emit(s, k, n) == [s EXCEPT !.out = Append(@, [k |-> k, n |-> n])]

Sent(o, k) == \E j \in 1..Len(o) : o[j].k = k

\* A step that would hold more continuations, timers or closing sockets in
\* flight than the bounds allow is not taken.
Count(o, k) == Cardinality({j \in 1..Len(o) : o[j].k = k})

\* The sockets opened to reconnect since the session last had an open one:
\* every new WebSocket(...) but the one of a start command, counted until
\* ws.onopen runs or the session is stopped.
Attempts(t) ==
  IF \/ t.isWebSocketConnected /\ ~isWebSocketConnected
     \/ Sent(t.out, "VOICE_RECOGNITION_ENDED")
     \/ t.gumPending > gumPending
  THEN 0
  ELSE attempts + Count(t.out, "new WebSocket")

Within(t) ==
  /\ \A c \in CloseCodes : t.closing[c] <= MaxClosing
  /\ t.gumPending <= MaxPendingStarts
  /\ t.stopPending <= MaxPendingStops
  /\ t.reconnectTimers <= MaxReconnectTimers
  /\ t.deferredSends <= MaxDeferred

Handled(t) ==
  /\ Within(t)
  /\ isRecording' = t.isRecording
  /\ isProcessingCommand' = t.isProcessingCommand
  /\ shouldSendAudio' = t.shouldSendAudio
  /\ isWebSocketConnected' = t.isWebSocketConnected
  /\ ws' = t.ws
  /\ mediaRecorder' = t.mediaRecorder
  /\ handler' = t.handler
  /\ audioStream' = t.audioStream
  /\ audioContext' = t.audioContext
  /\ analyser' = t.analyser
  /\ isVoiceDetected' = t.isVoiceDetected
  /\ lastVoiceTime' = t.lastVoiceTime
  /\ now' = t.now
  /\ reconnectAttempts' = t.reconnectAttempts
  /\ closing' = t.closing
  /\ orphans' = t.orphans
  /\ finPending' = t.finPending
  /\ speaking' = t.speaking
  /\ gumPending' = t.gumPending
  /\ stopPending' = t.stopPending
  /\ reconnectTimers' = t.reconnectTimers
  /\ deferredSends' = t.deferredSends
  /\ out' = t.out
  /\ UNCHANGED <<ttsVars, bgVars>>

\* A handler has run to its end (or to its next await).
Commit(t) == Handled(t) /\ UNCHANGED <<attempts, staleTimers, monitoring>>

\* The same, with the animation frames monitorVoiceActivity asks for.
CommitFrames(t) ==
  /\ Handled(t)
  /\ monitoring' = t.monitoring
  /\ UNCHANGED <<attempts, staleTimers>>

\* The same, with the reconnections counted.
CommitCounted(t) ==
  /\ Handled(t)
  /\ Attempts(t) <= MaxAttempts
  /\ attempts' = Attempts(t)
  /\ UNCHANGED <<staleTimers, monitoring>>

\* The same, with the reconnect timers that outlive a stop marked: a handler
\* that runs stopVoiceRecognition (it sends STOP_RECORDING or
\* VOICE_RECOGNITION_ENDED) leaves every pending timer stale; firesStale
\* tells that the timer which fires is a stale one.
CommitMarked(t, firesStale) ==
  /\ Handled(t)
  /\ UNCHANGED <<attempts, monitoring>>
  /\ staleTimers' = IF \/ Sent(t.out, "STOP_RECORDING")
                       \/ Sent(t.out, "VOICE_RECOGNITION_ENDED")
                    THEN t.reconnectTimers
                    ELSE IF firesStale THEN staleTimers - 1 ELSE staleTimers

\* ------------------------------------------------------- browser objects

\* ws.close(code) on the socket ws refers to.  A CONNECTING socket fails (its
\* close event carries 1006), an OPEN one starts the closing handshake and
\* its close event carries the code; a CLOSING or CLOSED one is left alone.
\* Every caller drops or replaces the reference in the same handler, so the
\* closed socket is kept only as a close event that is due.
WsClose(s, code) ==
  LET c == IF s.ws = "CONNECTING" THEN 1006 ELSE code
  IN IF s.ws \in {"CONNECTING", "OPEN"}
     THEN [s EXCEPT !.closing[c] = @ + 1, !.ws = "CLOSING"]
     ELSE s

\* MediaRecorder.stop() on the current recorder, or the end of its stream:
\* it goes inactive and a last dataavailable event of its handler is queued.
RecStop(s) ==
  IF s.mediaRecorder = "recording"
  THEN [s EXCEPT !.mediaRecorder = "inactive",
                 !.finPending = @ \cup {s.handler}]
  ELSE s

\* track.stop() on every track of the current stream.
StreamStop(s) ==
  IF s.audioStream = "active"
  THEN [RecStop(s) EXCEPT !.audioStream = "ended"]
  ELSE s

\* ------------------------------------------------------------- handlers

setupWebSocket(s) ==
  IF s.ws = "OPEN" THEN s
  ELSE Emit([WsClose(s, 1006) EXCEPT !.ws = "CONNECTING"], "new WebSocket", 0)

\* stopVoiceRecognition after its socket block: audio context, stream,
\* counters, and the lifecycle message.
stopCleanup(s) ==
  Emit([StreamStop([s EXCEPT !.audioContext = FALSE])
          EXCEPT !.audioStream = "null", !.analyser = FALSE,
                 !.isVoiceDetected = FALSE, !.reconnectAttempts = 0],
       "VOICE_RECOGNITION_ENDED", 0)

\* ws.close(1000, ...); ws = null; isWebSocketConnected = false
stopCloseSocket(s) ==
  Emit([WsClose(s, 1000) EXCEPT !.ws = "null", !.isWebSocketConnected = FALSE],
       "close 1000", 0)

\* stopVoiceRecognition up to its await (or to its end when it does not wait).
stopVoiceRecognition(s) ==
  LET s1 == RecStop([s EXCEPT !.isRecording = FALSE, !.isProcessingCommand = FALSE,
                              !.shouldSendAudio = FALSE])
  IN IF s1.ws # "null"
     THEN IF s1.ws = "OPEN"
          THEN [Emit(s1, "STOP_RECORDING", 0) EXCEPT !.stopPending = @ + 1]
          ELSE stopCleanup(stopCloseSocket(s1))
     ELSE stopCleanup(s1)

\* stopVoiceRecognition after its 100 ms wait; ws.close on a null ws throws
\* a TypeError outside the try block and the rest of the function is skipped.
stopResume(s) ==
  LET s1 == [s EXCEPT !.stopPending = @ - 1]
  IN IF s1.ws = "null" THEN s1 ELSE stopCleanup(stopCloseSocket(s1))

\* startVoiceRecognition up to its await of getUserMedia.
startVoiceRecognition(s) ==
  IF s.isRecording THEN s
  ELSE [setupWebSocket(s) EXCEPT !.gumPending = @ + 1]

\* What getByteFrequencyData may write into dataArray, one byte per bin.
Levels == [1..BinCount -> {0, 24, 26, 255}]

RECURSIVE Sum(_, _)
Sum(d, n) == IF n = 0 THEN 0 ELSE d[n] + Sum(d, n - 1)

\* average > threshold, the average being sum / length.
AboveThreshold(d) == Sum(d, BinCount) > VoiceThreshold * BinCount

\* A faulty monitor, which clears the flag at the first quiet frame.
monitorVoiceActivity_chatters(s, d) ==
  IF ~s.analyser THEN [s EXCEPT !.monitoring = FALSE]
  ELSE [s EXCEPT !.isVoiceDetected = AboveThreshold(d),
                 !.lastVoiceTime = IF AboveThreshold(d) THEN s.now ELSE @,
                 !.monitoring = s.isRecording]

\* One frame of monitorVoiceActivity, d being what the analyser reports; the
\* frame asks for the next one while isRecording.
monitorVoiceActivity(s, d) ==
  IF ~s.analyser THEN [s EXCEPT !.monitoring = FALSE]
  ELSE LET s1 == IF AboveThreshold(d)
                 THEN [s EXCEPT !.isVoiceDetected = TRUE, !.lastVoiceTime = s.now]
                 ELSE IF s.isVoiceDetected /\ s.now - s.lastVoiceTime > SilenceWindow
                      THEN [s EXCEPT !.isVoiceDetected = FALSE]
                      ELSE s
       IN [s1 EXCEPT !.monitoring = s.isRecording]

\* setupVoiceActivityDetection: a new context and analyser, and the first
\* frame run at once, on the zeros a new analyser reports before any audio
\* has been rendered.  A callback that is already due stays due.
setupVoiceActivityDetection(s) ==
  LET s1 == monitorVoiceActivity([s EXCEPT !.audioContext = TRUE, !.analyser = TRUE],
                                 [j \in 1..BinCount |-> 0])
  IN [s1 EXCEPT !.monitoring = s.monitoring \/ s1.monitoring]

\* startVoiceRecognition after getUserMedia resolved with a stream.  The
\* stream and the recorder the globals referred to are not stopped: if they
\* are live they go on on their own.
startGranted(s) ==
  Emit([setupVoiceActivityDetection(s) EXCEPT
          !.gumPending = @ - 1,
          !.orphans = IF s.mediaRecorder = "recording" THEN @ \cup {s.handler} ELSE @,
          !.audioStream = "active",
          !.mediaRecorder = "recording",
          !.handler = "full",
          !.isRecording = TRUE,
          !.shouldSendAudio = TRUE], "VOICE_RECOGNITION_STARTED", 0)

\* startVoiceRecognition after getUserMedia rejected: the catch block.
startRejected(s) ==
  Emit([s EXCEPT !.gumPending = @ - 1, !.isRecording = FALSE],
       "VOICE_RECOGNITION_ERROR", 0)

ws_onopen(s) ==
  [s EXCEPT !.isWebSocketConnected = TRUE, !.reconnectAttempts = 0]

ws_onerror(s) == [s EXCEPT !.isWebSocketConnected = FALSE]

\* The backoff of the reconnect timer, computed after the increment.
\* A faulty backoff, which waits the same time before every attempt.
ReconnectDelay_flat(k) == BackoffUnit

ReconnectDelay(k) == Min2(BackoffUnit * k, BackoffCap)

\* A faulty close handler, which counts one attempt more than the limit.
ws_onclose_overcounts(s, code, stopReason) ==
  LET s1 == [s EXCEPT !.isWebSocketConnected = FALSE]
  IN IF code = 1000 \/ stopReason
     THEN [s1 EXCEPT !.reconnectAttempts = 0]
     ELSE IF s1.isRecording /\ s1.reconnectAttempts <= MAX_RECONNECT_ATTEMPTS
          THEN Emit([s1 EXCEPT !.reconnectAttempts = @ + 1,
                               !.reconnectTimers = @ + 1],
                    "setTimeout reconnect", ReconnectDelay(s1.reconnectAttempts + 1))
     ELSE stopVoiceRecognition(s1)

ws_onclose(s, code, stopReason) ==
  LET s1 == [s EXCEPT !.isWebSocketConnected = FALSE]
  IN IF code = 1000 \/ stopReason
     THEN [s1 EXCEPT !.reconnectAttempts = 0]
     ELSE IF s1.isRecording /\ s1.reconnectAttempts < MAX_RECONNECT_ATTEMPTS
          THEN Emit([s1 EXCEPT !.reconnectAttempts = @ + 1,
                               !.reconnectTimers = @ + 1],
                    "setTimeout reconnect", ReconnectDelay(s1.reconnectAttempts + 1))
     ELSE IF s1.reconnectAttempts >= MAX_RECONNECT_ATTEMPTS
          THEN stopVoiceRecognition(s1)
     ELSE s1

\* The setTimeout callback of ws.onclose.
reconnectTimer(s) ==
  LET s1 == [s EXCEPT !.reconnectTimers = @ - 1]
  IN IF s1.isRecording THEN setupWebSocket(s1) ELSE s1

showAIResponse(s) == [s EXCEPT !.speaking = TRUE]

\* ws.onmessage, result.error set.
onmessage_error(s) == Emit(s, "VOICE_RECOGNITION_ERROR", 0)

\* A faulty ready_for_next handler, which forwards the event to the UI and
\* leaves the session paused.
onmessage_ready_paused(s) == Emit(s, "READY_FOR_NEXT_COMMAND", 0)

\* A faulty ready_for_next handler, which replaces the recorder every time.
onmessage_ready_replaces(s) ==
  Emit([s EXCEPT !.isProcessingCommand = FALSE, !.shouldSendAudio = TRUE,
                 !.mediaRecorder = "recording", !.handler = "lite"],
       "READY_FOR_NEXT_COMMAND", 0)

\* ws.onmessage, ready_for_next.
onmessage_ready(s) ==
  LET s1 == Emit([s EXCEPT !.isProcessingCommand = FALSE, !.shouldSendAudio = TRUE],
                 "READY_FOR_NEXT_COMMAND", 0)
      s2 == IF s1.mediaRecorder # "null"
            THEN IF s1.mediaRecorder = "recording" THEN s1
                 ELSE IF s1.audioStream = "active"
                      THEN [s1 EXCEPT !.mediaRecorder = "recording",
                                      !.handler = "lite",
                                      !.isRecording = TRUE,
                                      !.shouldSendAudio = TRUE]
                      ELSE startVoiceRecognition(s1)
            ELSE startVoiceRecognition(s1)
  IN IF s2.ws = "OPEN" THEN Emit(s2, "KEEP_ALIVE", 0) ELSE s2

\* ws.onmessage, a transcript.  ai: the message carries ai_response;
\* processing: "true", "false" or "absent".
\* A faulty transcript handler, which stops the recorder while the command
\* is processed.
onmessage_transcript_stops(s, isFinal, ai, processing) ==
  IF isFinal
  THEN Emit(RecStop([s EXCEPT !.isProcessingCommand = TRUE,
                              !.shouldSendAudio = FALSE]),
            "VOICE_RECOGNITION_RESULT", 0)
  ELSE s

\* A faulty transcript handler, which takes an interim result for the end
\* of the command.
onmessage_transcript_resumes(s, isFinal, ai, processing) ==
  IF isFinal
  THEN Emit([s EXCEPT !.isProcessingCommand = TRUE, !.shouldSendAudio = FALSE],
            "VOICE_RECOGNITION_RESULT", 0)
  ELSE [s EXCEPT !.isProcessingCommand = FALSE, !.shouldSendAudio = TRUE]

onmessage_transcript(s, isFinal, ai, processing) ==
  IF isFinal
  THEN LET s1 == [s EXCEPT !.isProcessingCommand = TRUE, !.shouldSendAudio = FALSE]
           s2 == IF ai /\ processing = "false" THEN showAIResponse(s1) ELSE s1
           s3 == Emit(s2, "VOICE_RECOGNITION_RESULT", 0)
       IN IF ~ai /\ processing # "true" THEN Emit(s3, "VOICE_COMMAND", 0) ELSE s3
  ELSE s

\* A faulty chunk handler, which forwards a chunk only while the voice
\* activity detection reports speech.
ondataavailable_full_gated(s, nonEmpty) ==
  IF nonEmpty /\ s.isVoiceDetected /\ s.shouldSendAudio /\ ~s.isProcessingCommand
     /\ s.isWebSocketConnected /\ s.ws = "OPEN"
  THEN Emit(s, "chunk", 0)
  ELSE s

\* mediaRecorder.ondataavailable as attached by startVoiceRecognition.
ondataavailable_full(s, nonEmpty) ==
  IF ~nonEmpty THEN s
  ELSE IF ~s.shouldSendAudio \/ s.isProcessingCommand THEN s
  ELSE IF ~s.isWebSocketConnected \/ s.ws # "OPEN"
       THEN Emit([setupWebSocket(WsClose(s, 1006)) EXCEPT !.deferredSends = @ + 1],
                 "setTimeout send", 500)
       ELSE Emit(s, "chunk", 0)

\* mediaRecorder.ondataavailable as re-attached on ready_for_next.
ondataavailable_lite(s, nonEmpty) ==
  IF nonEmpty /\ s.shouldSendAudio /\ ~s.isProcessingCommand
     /\ s.isWebSocketConnected /\ s.ws = "OPEN"
  THEN Emit(s, "chunk", 0)
  ELSE s

ondataavailable(s, h, nonEmpty) ==
  IF h = "full" THEN ondataavailable_full(s, nonEmpty)
  ELSE ondataavailable_lite(s, nonEmpty)

\* The 500 ms setTimeout callback of ondataavailable.
deferredSend(s) ==
  LET s1 == [s EXCEPT !.deferredSends = @ - 1]
  IN IF s1.isWebSocketConnected /\ s1.ws = "OPEN" /\ s1.shouldSendAudio
     THEN Emit(s1, "chunk", 0)
     ELSE s1

\* -------------------------------------------------------------- actions

InitStream ==
  /\ isRecording = FALSE /\ isProcessingCommand = FALSE
  /\ shouldSendAudio = TRUE /\ isWebSocketConnected = FALSE
  /\ ws = "null" /\ mediaRecorder = "null" /\ handler = "none"
  /\ audioStream = "null" /\ audioContext = FALSE
  /\ analyser = FALSE /\ isVoiceDetected = FALSE /\ lastVoiceTime = 0
  /\ monitoring = FALSE /\ now = 0
  /\ reconnectAttempts = 0
  /\ closing = [c \in CloseCodes |-> 0]
  /\ orphans = {} /\ finPending = {}
  /\ speaking = FALSE
  /\ gumPending = 0 /\ stopPending = 0 /\ reconnectTimers = 0 /\ deferredSends = 0
  /\ attempts = 0 /\ staleTimers = 0
  /\ out = <<>>

\* chrome.runtime.onMessage: START_VOICE_RECOGNITION / STOP_VOICE_RECOGNITION
MsgStart == Commit(startVoiceRecognition(S))
MsgStop == Commit(stopVoiceRecognition(S))

GumGranted == gumPending > 0 /\ Commit(startGranted(S))
GumRejected == gumPending > 0 /\ Commit(startRejected(S))
StopResume == stopPending > 0 /\ Commit(stopResume(S))

SockOpen == ws = "CONNECTING" /\ Commit(ws_onopen([S EXCEPT !.ws = "OPEN"]))

\* The connection fails or is lost: error and close events of one task.
SockFail ==
  /\ ws \in {"CONNECTING", "OPEN"}
  /\ Commit(ws_onclose(ws_onerror([S EXCEPT !.ws = "CLOSED"]), 1006, FALSE))

\* The server closes the open socket with a close frame.
SockServerClose(code) ==
  /\ ws = "OPEN"
  /\ Commit(ws_onclose([S EXCEPT !.ws = "CLOSED"], code, FALSE))

\* The close event of a socket the script closed.
SockClosed(code) ==
  /\ closing[code] > 0
  /\ Commit(ws_onclose([S EXCEPT !.closing[code] = @ - 1], code, code = 1000))

RecvError == ws = "OPEN" /\ Commit(onmessage_error(S))
RecvReady == ws = "OPEN" /\ Commit(onmessage_ready(S))
RecvFinal(ai, processing) ==
  ws = "OPEN" /\ Commit(onmessage_transcript(S, TRUE, ai, processing))
RecvInterim ==
  ws = "OPEN" /\ Commit(onmessage_transcript(S, FALSE, FALSE, "absent"))
\* JSON.parse throws; the catch block logs.
RecvMalformed == ws = "OPEN" /\ Commit(S)

Chunk(nonEmpty) ==
  mediaRecorder = "recording" /\ Commit(ondataavailable(S, handler, nonEmpty))

OrphanChunk(h, nonEmpty) ==
  h \in orphans /\ Commit(ondataavailable(S, h, nonEmpty))

LastChunk(h, nonEmpty) ==
  /\ h \in finPending
  /\ Commit(ondataavailable([S EXCEPT !.finPending = @ \ {h}], h, nonEmpty))

\* The capture device is lost: the current stream ends.
StreamEnds == audioStream = "active" /\ Commit(StreamStop(S))

\* A leaked stream ends.
OrphanEnds(h) ==
  /\ h \in orphans
  /\ Commit([S EXCEPT !.orphans = @ \ {h}, !.finPending = @ \cup {h}])

ReconnectTimer == reconnectTimers > 0 /\ Commit(reconnectTimer(S))
DeferredSend == deferredSends > 0 /\ Commit(deferredSend(S))
SpeechEnd == speaking /\ Commit([S EXCEPT !.speaking = FALSE])

\* The requestAnimationFrame callback of monitorVoiceActivity.
Frame(d) == monitoring /\ CommitFrames(monitorVoiceActivity(S, d))

\* getUserMedia resolves, the first frame of the monitor included.
VGranted == gumPending > 0 /\ CommitFrames(startGranted(S))

\* The wall clock advances.
TimePasses == now + FrameStep <= MaxNow /\ Commit([S EXCEPT !.now = @ + FrameStep])

NextStream ==
  \/ MsgStart
  \/ MsgStop
  \/ GumGranted
  \/ GumRejected
  \/ StopResume
  \/ SockOpen
  \/ SockFail
  \/ \E code \in CloseCodes : SockServerClose(code)
  \/ \E code \in CloseCodes : SockClosed(code)
  \/ RecvError
  \/ RecvReady
  \/ \E ai \in BOOLEAN : \E processing \in {"true", "false", "absent"} :
       RecvFinal(ai, processing)
  \/ RecvInterim
  \/ RecvMalformed
  \/ \E nonEmpty \in BOOLEAN : Chunk(nonEmpty)
  \/ \E h \in Handlers : \E nonEmpty \in BOOLEAN : OrphanChunk(h, nonEmpty)
  \/ \E h \in Handlers : \E nonEmpty \in BOOLEAN : LastChunk(h, nonEmpty)
  \/ StreamEnds
  \/ \E h \in Handlers : OrphanEnds(h)
  \/ ReconnectTimer
  \/ DeferredSend
  \/ SpeechEnd

\* ======================================================================
\* Part II: the speech-recognition content script and its service worker
\* ======================================================================

\* The delays of the script, in milliseconds.
D_ttsStop == 500           \* wait for recognition to stop
D_ttsSpeak == 300          \* then wait before speaking
D_watchdog == 8000
D_autoRestart == 1000      \* recognition.onend
D_restartEnd == 1500       \* utterance.onend
D_nextEnd == 2000
D_restartError == 2000     \* utterance.onerror
D_nextError == 3000
D_restartWatchdog == 1000  \* watchdog
D_nextWatchdog == 2000
DupWindow == 2000          \* handleNluQuery's duplicate window

Texts == {"A", "B"}

T == [extensionIsEnabled |-> extensionIsEnabled, isRecognizing |-> isRecognizing,
      ttsQueue |-> ttsQueue, isProcessingTTS |-> isProcessingTTS,
      ttsTimeoutId |-> ttsTimeoutId, pausedForTTS |-> pausedForTTS,
      manualStop |-> manualStop, recState |-> recState, live |-> live,
      dead |-> dead, timers |-> timers, lastTTSText |-> lastTTSText,
      sinceTTS |-> sinceTTS, loaded |-> loaded, nRequests |-> nRequests,
      nToggles |-> nToggles, clock |-> clock, out |-> <<>>]

WithinT(t) ==
  /\ Len(t.ttsQueue) <= MaxQueue
  /\ t.live + t.dead <= MaxUtterances
  /\ t.nToggles <= MaxToggles

CommitT(t) ==
  /\ WithinT(t)
  /\ extensionIsEnabled' = t.extensionIsEnabled
  /\ isRecognizing' = t.isRecognizing
  /\ ttsQueue' = t.ttsQueue
  /\ isProcessingTTS' = t.isProcessingTTS
  /\ ttsTimeoutId' = t.ttsTimeoutId
  /\ pausedForTTS' = t.pausedForTTS
  /\ manualStop' = t.manualStop
  /\ recState' = t.recState
  /\ live' = t.live
  /\ dead' = t.dead
  /\ timers' = t.timers
  /\ lastTTSText' = t.lastTTSText
  /\ sinceTTS' = t.sinceTTS
  /\ loaded' = t.loaded
  /\ nRequests' = t.nRequests
  /\ nToggles' = t.nToggles
  /\ clock' = t.clock
  /\ tout' = t.out
  /\ UNCHANGED <<streamVars, bgVars>>

Timer(k, d, x) == [k |-> k, t |-> d, x |-> x]
SetTimeout(t, k, d, x) == [t EXCEPT !.timers = @ \cup {Timer(k, d, x)}]

Watchdogs(t) == {tm \in t.timers : tm.k = "watchdog"}

\* clearTimeout(ttsTimeoutId): the id is that of the watchdog set last, the
\* one with the most time left; an id whose timer has fired clears nothing.
ClearWatchdog(t) ==
  IF t.ttsTimeoutId = "armed"
  THEN LET w == CHOOSE tm \in Watchdogs(t) : \A o \in Watchdogs(t) : o.t <= tm.t
       IN [t EXCEPT !.timers = @ \ {w}]
  ELSE t

\* recognition.start(): throws InvalidStateError unless the recognizer is
\* idle; every call site catches it.
RecStart(t) ==
  IF t.recState = "idle"
  THEN Emit([t EXCEPT !.recState = "starting"], "recognition.start", 0)
  ELSE Emit(t, "recognition.start throws", 0)

\* recognition.stop()
RecStopListening(t) ==
  IF t.recState \in {"starting", "running"}
  THEN [t EXCEPT !.recState = "stopping"]
  ELSE t

\* speechSynthesis.cancel(): every utterance is removed from the queue.
SynthCancel(t) == [t EXCEPT !.dead = @ + t.live, !.live = 0]

recognition_onstart(t) == [t EXCEPT !.isRecognizing = TRUE]

recognition_onerror(t) == [t EXCEPT !.isRecognizing = FALSE]

recognition_onend(t) ==
  LET t1 == [t EXCEPT !.isRecognizing = FALSE]
  IN IF t1.pausedForTTS THEN t1
     ELSE IF t1.extensionIsEnabled /\ ~t1.manualStop
          THEN SetTimeout(t1, "autoRestart", D_autoRestart, "")
          ELSE t1

\* The setTimeout callback of recognition.onend.
autoRestart(t) ==
  IF t.extensionIsEnabled /\ ~t.isRecognizing /\ ~t.pausedForTTS
  THEN RecStart(t) ELSE t

startRecognition(t) ==
  LET t1 == [t EXCEPT !.manualStop = FALSE, !.pausedForTTS = FALSE]
  IN IF ~t1.extensionIsEnabled THEN t1
     ELSE IF t1.isRecognizing THEN t1
     ELSE RecStart(t1)

stopRecognition(t) ==
  IF t.isRecognizing
  THEN RecStopListening([t EXCEPT !.manualStop = TRUE])
  ELSE t

processUserUtterance(t, utterance) ==
  IF t.isProcessingTTS \/ t.pausedForTTS THEN t
  ELSE Emit(t, "NLU_QUERY", 0)

\* A faulty queue, which takes the announcement that came last.
processTTSQueue_lifo(t) ==
  IF Len(t.ttsQueue) = 0 THEN [t EXCEPT !.isProcessingTTS = FALSE]
  ELSE IF t.isProcessingTTS THEN t
  ELSE LET n == Len(t.ttsQueue)
           t1 == [t EXCEPT !.isProcessingTTS = TRUE,
                           !.ttsQueue = SubSeq(@, 1, n - 1),
                           !.pausedForTTS = TRUE, !.manualStop = TRUE]
       IN Emit(SetTimeout(t1, "ttsStop", D_ttsStop, t.ttsQueue[n]), "dequeue", 0)

processTTSQueue(t) ==
  IF Len(t.ttsQueue) = 0 THEN [t EXCEPT !.isProcessingTTS = FALSE]
  ELSE IF t.isProcessingTTS THEN t
  ELSE LET text == Head(t.ttsQueue)
           t1 == [t EXCEPT !.isProcessingTTS = TRUE, !.ttsQueue = Tail(@)]
           t2 == IF t1.ttsTimeoutId # "null"
                 THEN [ClearWatchdog(t1) EXCEPT !.ttsTimeoutId = "null"]
                 ELSE t1
           t3 == [t2 EXCEPT !.pausedForTTS = TRUE, !.manualStop = TRUE]
           t4 == IF t3.isRecognizing THEN RecStopListening(t3) ELSE t3
       IN Emit(SetTimeout(t4, "ttsStop", D_ttsStop, text), "dequeue", 0)

\* The 500 ms callback of processTTSQueue.
ttsStop(t, text) ==
  SetTimeout(SynthCancel([t EXCEPT !.isRecognizing = FALSE]),
             "ttsSpeak", D_ttsSpeak, text)

\* The 300 ms callback: the watchdog is set and the utterance is spoken.
ttsSpeak(t, text) ==
  Emit([SetTimeout(t, "watchdog", D_watchdog, "")
          EXCEPT !.ttsTimeoutId = "armed", !.live = @ + 1], "speak", 0)

\* The body shared by the watchdog, utterance.onend and utterance.onerror.
ReleaseFocus(t) ==
  [t EXCEPT !.isProcessingTTS = FALSE, !.pausedForTTS = FALSE, !.manualStop = FALSE]

\* A faulty watchdog, which logs the timeout and releases nothing.
watchdog_logs(t, newest) ==
  [t EXCEPT !.ttsTimeoutId = IF @ = "armed" /\ newest THEN "expired" ELSE @]

\* The 8 s callback (ttsTimeoutId keeps the id of the timer that fired).
watchdog(t, newest) ==
  LET t1 == ReleaseFocus([t EXCEPT !.ttsTimeoutId =
                             IF @ = "armed" /\ newest THEN "expired" ELSE @])
      t2 == IF t1.extensionIsEnabled
            THEN SetTimeout(t1, "restartWatchdog", D_restartWatchdog, "")
            ELSE t1
  IN SetTimeout(t2, "next", D_nextWatchdog, "")

utterance_onend(t) ==
  LET t1 == IF t.ttsTimeoutId # "null"
            THEN [ClearWatchdog(t) EXCEPT !.ttsTimeoutId = "null"]
            ELSE t
  IN SetTimeout(SetTimeout(ReleaseFocus(t1), "restart", D_restartEnd, ""),
                "next", D_nextEnd, "")

\* A faulty error handler, which gives the conversation up.
utterance_onerror_gives_up(t) ==
  ReleaseFocus([t EXCEPT !.extensionIsEnabled = FALSE])

utterance_onerror(t) ==
  LET t1 == IF t.ttsTimeoutId # "null"
            THEN [ClearWatchdog(t) EXCEPT !.ttsTimeoutId = "null"]
            ELSE t
  IN SetTimeout(SetTimeout(ReleaseFocus(t1), "restart", D_restartError, ""),
                "next", D_nextError, "")

\* A faulty restart callback, which never starts the recognizer.
restart_skips(t) == t

\* The restart callbacks of utterance.onend and utterance.onerror.
restart(t) ==
  IF t.extensionIsEnabled /\ ~t.isRecognizing THEN RecStart(t) ELSE t

\* The restart callback of the watchdog.
restartWatchdog(t) ==
  IF ~t.isRecognizing THEN RecStart(t) ELSE t

speakText(t, text) ==
  IF (\E j \in 1..Len(t.ttsQueue) : t.ttsQueue[j] = text) /\ Len(t.ttsQueue) > 0
  THEN t
  ELSE LET t1 == [t EXCEPT !.ttsQueue = Append(@, text)]
       IN IF ~t1.isProcessingTTS THEN processTTSQueue(t1) ELSE t1

\* chrome.runtime.onMessage of the content script: toggle_feature
toggle_feature(t, enabled) ==
  LET oldStatus == t.extensionIsEnabled
      t1 == [t EXCEPT !.extensionIsEnabled = enabled]
  IN IF enabled
     THEN IF ~oldStatus THEN startRecognition(t1) ELSE t1
     ELSE stopRecognition(t1)

\* chrome.runtime.onMessage of the content script: TTS
onMessage_TTS(t, text) == speakText(Emit(t, "TTS", 0), text)

\* handleNluQuery, mcpResult.success with mcpResult.speak = text: the TTS
\* dispatch behind the duplicate filter.
handleNluQuery_speak(t, text) ==
  LET isDuplicate == text = t.lastTTSText /\ t.sinceTTS < DupWindow
  IN IF ~isDuplicate
     THEN onMessage_TTS([t EXCEPT !.lastTTSText = text, !.sinceTTS = 0], text)
     ELSE t

\* handleNluQuery's failure branch and handleFollowUpWithMcp: TTS is sent
\* with no filter.
sendTTS(t, text) == onMessage_TTS(t, text)

InitTTS ==
  /\ extensionIsEnabled = FALSE /\ isRecognizing = FALSE
  /\ ttsQueue = <<>> /\ isProcessingTTS = FALSE /\ ttsTimeoutId = "null"
  /\ pausedForTTS = FALSE /\ manualStop = FALSE
  /\ recState = "idle" /\ live = 0 /\ dead = 0 /\ timers = {}
  /\ lastTTSText = "" /\ sinceTTS = DupWindow
  /\ loaded = FALSE /\ nRequests = 0 /\ nToggles = 0 /\ clock = 0
  /\ tout = <<>>

\* ------------------------------------------------- the service workers

\* The state after background.ts has run: initialize() has been called and
\* awaits chrome.storage.local.get.
InitBg ==
  /\ isEnabled = FALSE /\ localStore = "unset" /\ plasmoStore = "unset"
  /\ storageOps = <<[k |-> "local.get", v |-> FALSE, prev |-> FALSE]>>
  /\ expected = FALSE
  /\ bout = <<>>
  /\ followUp = [phase |-> "idle", requires |-> FALSE, utterance |-> "other",
                 success |-> FALSE, data |-> [t |-> "none", v |-> 0],
                 speak |-> [k |-> "none", v |-> 0]]

MessageTypes == {"TOGGLE_ENABLED", "TOGGLE_EXTENSION", "VOICE_COMMAND",
                 "START_VOICE_RECOGNITION", "STOP_VOICE_RECOGNITION"}

\* chrome.runtime.onMessage of background.ts: a message runs both listeners
\* in turn, and the first sendResponse call is the one the sender gets.
\* sendMessageToActiveTab and handleVoiceCommand are taken with the handler.
onMessage(type) ==
  /\ Len(storageOps) < MaxStorageOps
  /\ CASE type = "TOGGLE_ENABLED" ->
            /\ storageOps' = Append(storageOps,
                                 [k |-> "plasmo.get", v |-> FALSE, prev |-> FALSE])
            /\ expected' = ~expected
            /\ bout' = <<[k |-> "respond Unknown message type", n |-> 0]>>
            /\ UNCHANGED isEnabled
       [] type = "TOGGLE_EXTENSION" ->
            /\ isEnabled' = ~isEnabled
            /\ storageOps' = Append(storageOps,
                                 [k |-> "local.set", v |-> ~isEnabled, prev |-> isEnabled])
            /\ bout' = <<>>
            /\ UNCHANGED expected
       [] type = "VOICE_COMMAND" ->
            /\ bout' = IF ~isEnabled
                       THEN <<[k |-> "respond success=false", n |-> 0]>>
                       ELSE <<[k |-> "sendCommand", n |-> 0],
                              [k |-> "VOICE_COMMAND_RESPONSE", n |-> 0],
                              [k |-> "respond", n |-> 0]>>
            /\ UNCHANGED <<isEnabled, storageOps, expected>>
       [] type = "START_VOICE_RECOGNITION" ->
            /\ bout' = IF ~isEnabled
                       THEN <<[k |-> "respond success=false", n |-> 0]>>
                       ELSE <<[k |-> "tab START_VOICE_RECOGNITION", n |-> 0],
                              [k |-> "respond success=true", n |-> 0]>>
            /\ UNCHANGED <<isEnabled, storageOps, expected>>
       [] type = "STOP_VOICE_RECOGNITION" ->
            /\ bout' = <<[k |-> "tab STOP_VOICE_RECOGNITION", n |-> 0],
                         [k |-> "respond success=true", n |-> 0]>>
            /\ UNCHANGED <<isEnabled, storageOps, expected>>
  /\ UNCHANGED <<localStore, plasmoStore, followUp, streamVars, ttsVars>>

\* chrome.runtime.onInstalled: the first listener sets the stored flag of
\* the plasmo storage to false, the second calls initialize().
OnInstalled ==
  /\ Len(storageOps) + 2 <= MaxStorageOps
  /\ storageOps' = storageOps \o
        <<[k |-> "plasmo.set", v |-> FALSE, prev |-> FALSE],
          [k |-> "local.get", v |-> FALSE, prev |-> FALSE]>>
  /\ expected' = FALSE
  /\ bout' = <<>>
  /\ UNCHANGED <<isEnabled, localStore, plasmoStore, followUp, streamVars, ttsVars>>

\* chrome.runtime.onStartup: initialize().
OnStartup ==
  /\ Len(storageOps) < MaxStorageOps
  /\ storageOps' = Append(storageOps, [k |-> "local.get", v |-> FALSE, prev |-> FALSE])
  /\ bout' = <<>>
  /\ UNCHANGED <<isEnabled, localStore, plasmoStore, expected, followUp,
                 streamVars, ttsVars>>

\* A storage call completes, in any order with the others, and its
\* continuation runs.
\* initialize() after chrome.storage.local.get (checkServerStatus sends
\* nothing to the tabs and is taken with it).
LocalGetDone(i) ==
  /\ i \in 1..Len(storageOps) /\ storageOps[i].k = "local.get"
  /\ storageOps' = [j \in 1..(Len(storageOps) - 1) |->
                      IF j < i THEN storageOps[j] ELSE storageOps[j + 1]]
  /\ isEnabled' = (localStore = "true")
  /\ bout' = IF ~isEnabled'
             THEN <<[k |-> "every tab STOP_VOICE_RECOGNITION", n |-> 0]>>
             ELSE <<>>
  /\ UNCHANGED <<localStore, plasmoStore, expected, followUp, streamVars, ttsVars>>

\* The continuation of chrome.storage.local.set in TOGGLE_EXTENSION: it
\* reads the flag as it is now, and previousState as it was at the toggle.
LocalSetDone(i) ==
  /\ i \in 1..Len(storageOps) /\ storageOps[i].k = "local.set"
  /\ storageOps' = [j \in 1..(Len(storageOps) - 1) |->
                      IF j < i THEN storageOps[j] ELSE storageOps[j + 1]]
  /\ localStore' = IF storageOps[i].v THEN "true" ELSE "false"
  /\ bout' = (IF isEnabled /\ ~storageOps[i].prev
              THEN <<[k |-> "navigateToGmail", n |-> 0]>>
              ELSE IF ~isEnabled /\ storageOps[i].prev
                   THEN <<[k |-> "every tab STOP_VOICE_RECOGNITION", n |-> 0]>>
                   ELSE <<>>)
             \o <<[k |-> IF isEnabled THEN "respond isEnabled=true"
                                      ELSE "respond isEnabled=false", n |-> 0]>>
  /\ UNCHANGED <<isEnabled, plasmoStore, expected, followUp, streamVars, ttsVars>>

\* The continuation of storage.get in TOGGLE_ENABLED: storage.set with the
\* negation of what was read; its sendResponse comes after the one of the
\* second listener.
PlasmoGetDone(i) ==
  /\ i \in 1..Len(storageOps) /\ storageOps[i].k = "plasmo.get"
  /\ storageOps' = [j \in 1..Len(storageOps) |->
                      IF j < i THEN storageOps[j]
                      ELSE IF j < Len(storageOps) THEN storageOps[j + 1]
                      ELSE [k |-> "plasmo.set", v |-> ~(plasmoStore = "true"),
                            prev |-> FALSE]]
  /\ bout' = <<[k |-> IF ~(plasmoStore = "true") THEN "late respond isEnabled=true"
                                                 ELSE "late respond isEnabled=false",
                n |-> 0]>>
  /\ UNCHANGED <<isEnabled, localStore, plasmoStore, expected, followUp,
                 streamVars, ttsVars>>

PlasmoSetDone(i) ==
  /\ i \in 1..Len(storageOps) /\ storageOps[i].k = "plasmo.set"
  /\ storageOps' = [j \in 1..(Len(storageOps) - 1) |->
                      IF j < i THEN storageOps[j] ELSE storageOps[j + 1]]
  /\ plasmoStore' = IF storageOps[i].v THEN "true" ELSE "false"
  /\ bout' = <<>>
  /\ UNCHANGED <<isEnabled, localStore, expected, followUp, streamVars, ttsVars>>

NextBg ==
  \/ \E type \in MessageTypes : onMessage(type)
  \/ OnInstalled
  \/ OnStartup
  \/ \E i \in 1..MaxStorageOps : LocalGetDone(i)
  \/ \E i \in 1..MaxStorageOps : LocalSetDone(i)
  \/ \E i \in 1..MaxStorageOps : PlasmoGetDone(i)
  \/ \E i \in 1..MaxStorageOps : PlasmoSetDone(i)

\* handleNluQuery sends EXECUTE_ACTION for mcpResult.browser_action and the
\* content script answers with actionResult.  n: the number of elements a
\* COUNT_ELEMENTS finds, or the length of the text a GET_TEXT extracts.
ExecuteAction(type, requires, utterance, found, n) ==
  /\ followUp.phase \in {"idle", "done"}
  /\ followUp' =
       [phase |-> "answered", requires |-> requires, utterance |-> utterance,
        success |-> (type = "COUNT_ELEMENTS" \/ found),
        data |-> IF type = "COUNT_ELEMENTS" THEN [t |-> "number", v |-> n]
                 ELSE IF found THEN [t |-> "string", v |-> n]
                 ELSE [t |-> "none", v |-> 0],
        speak |-> [k |-> "none", v |-> 0]]
  /\ UNCHANGED <<isEnabled, localStore, plasmoStore, storageOps, expected, bout,
                 streamVars, ttsVars>>

\* The callback of that sendMessage: the follow-up is scheduled when
\* requires_follow_up, responseFromContent.success and
\* responseFromContent.data are all truthy (0 and "" are not).
ActionAnswered ==
  /\ followUp.phase = "answered"
  /\ followUp' = [followUp EXCEPT !.phase =
                    IF /\ followUp.requires /\ followUp.success
                       /\ followUp.data.t # "none" /\ followUp.data.v # 0
                    THEN "scheduled" ELSE "done"]
  /\ UNCHANGED <<isEnabled, localStore, plasmoStore, storageOps, expected, bout,
                 streamVars, ttsVars>>

\* handleFollowUpWithMcp, called 1000 ms later: speak is what it sends as
\* TTS (k: the sentence, v: the count or the length of the text quoted);
\* an empty speak is not sent.
FollowUp ==
  /\ followUp.phase = "scheduled"
  /\ LET d == followUp.data
         result ==
           IF d.t = "number" THEN [k |-> "You have N unread emails.", v |-> d.v]
           ELSE IF followUp.utterance = "title"
                THEN [k |-> "The email subject is: ", v |-> d.v]
           ELSE IF followUp.utterance = "read"
                THEN IF d.v > 500
                     THEN [k |-> "This email is quite long.", v |-> 300]
                     ELSE [k |-> "text", v |-> d.v]
           ELSE IF d.v > 100 THEN [k |-> "Here's what I found: ", v |-> 100]
                ELSE [k |-> "text", v |-> d.v]
     IN followUp' = [followUp EXCEPT
                       !.phase = "done",
                       !.speak = IF result.k = "text" /\ result.v = 0
                                 THEN [k |-> "none", v |-> 0] ELSE result]
  /\ UNCHANGED <<isEnabled, localStore, plasmoStore, storageOps, expected, bout,
                 streamVars, ttsVars>>

NextFollowUp ==
  \/ \E requires \in BOOLEAN : \E utterance \in {"title", "read", "other"} :
       \/ \E n \in 0..MaxCount :
            ExecuteAction("COUNT_ELEMENTS", requires, utterance, TRUE, n)
       \/ \E found \in BOOLEAN : \E n \in {0, 5, 101, 501} :
            ExecuteAction("GET_TEXT", requires, utterance, found, n)
  \/ ActionAnswered
  \/ FollowUp

Init == InitStream /\ InitTTS /\ InitBg

SpecFollowUp == Init /\ [][NextFollowUp]_vars

SpecBg == Init /\ [][NextBg]_vars

Due == {tm \in timers : tm.t = 0}
Fire(tm) == [T EXCEPT !.timers = @ \ {tm}]

\* Time passes in steps of 100 ms, of which every delay is a multiple; a
\* timer that is due fires first.
Tick ==
  /\ Due = {}
  /\ timers # {} \/ sinceTTS < DupWindow \/ clock # 0
  /\ CommitT([T EXCEPT !.timers = {[tm EXCEPT !.t = @ - 100] : tm \in timers},
                       !.sinceTTS = Min2(@ + 100, DupWindow),
                       !.clock = (@ + 1) % EnvPeriod])

TimerFires ==
  \E tm \in Due :
     CommitT(CASE tm.k = "ttsStop" -> ttsStop(Fire(tm), tm.x)
               [] tm.k = "ttsSpeak" -> ttsSpeak(Fire(tm), tm.x)
               [] tm.k = "watchdog" ->
                    watchdog(Fire(tm), \A o \in Watchdogs(T) : o.t <= tm.t)
               [] tm.k = "restart" -> restart(Fire(tm))
               [] tm.k = "restartWatchdog" -> restartWatchdog(Fire(tm))
               [] tm.k = "autoRestart" -> autoRestart(Fire(tm))
               [] tm.k = "next" -> processTTSQueue(Fire(tm)))

\* Messages and browser events arrive every EnvPeriod steps of 100 ms;
\* timers fire at any step.
EnvTurn == clock = 0 /\ Due = {}

\* The callback of the initial chrome.storage.local.get.
StorageLoaded(v) ==
  EnvTurn /\ ~loaded /\ CommitT([T EXCEPT !.loaded = TRUE, !.extensionIsEnabled = v])

Toggle(enabled) ==
  EnvTurn /\ CommitT(toggle_feature([T EXCEPT !.nToggles = @ + 1], enabled))

NluSpeak(text) ==
  /\ EnvTurn /\ nRequests < MaxRequests
  /\ CommitT(handleNluQuery_speak([T EXCEPT !.nRequests = @ + 1], text))
OtherTTS(text) ==
  /\ EnvTurn /\ nRequests < MaxRequests
  /\ CommitT(sendTTS([T EXCEPT !.nRequests = @ + 1], text))

RecStarted ==
  EnvTurn /\ recState = "starting" /\ CommitT(recognition_onstart([T EXCEPT !.recState = "running"]))
\* The recognizer ends: after stop(), or by itself (silence, network).
RecEnded ==
  /\ EnvTurn
  /\ recState \in {"stopping", "running"}
  /\ CommitT(recognition_onend([T EXCEPT !.recState = "idle"]))
\* The recognizer fails: onerror, then onend.
RecFailed ==
  /\ EnvTurn
  /\ recState \in {"starting", "running"}
  /\ CommitT(recognition_onend(recognition_onerror([T EXCEPT !.recState = "idle"])))
\* A final result: while the recognizer runs, or after stop() for the audio
\* captured so far.
RecResult ==
  /\ EnvTurn
  /\ recState \in {"running", "stopping"}
  /\ CommitT(processUserUtterance(T, "utterance"))

UttEnd == EnvTurn /\ live > 0 /\ CommitT(utterance_onend([T EXCEPT !.live = @ - 1]))
UttError == EnvTurn /\ live > 0 /\ CommitT(utterance_onerror([T EXCEPT !.live = @ - 1]))
\* A cancelled utterance: its error callback comes late, or never.
CancelledError == EnvTurn /\ dead > 0 /\ CommitT(utterance_onerror([T EXCEPT !.dead = @ - 1]))
CancelledGone == EnvTurn /\ dead > 0 /\ CommitT([T EXCEPT !.dead = @ - 1])

NextTTS ==
  \/ Tick
  \/ TimerFires
  \/ \E v \in BOOLEAN : StorageLoaded(v)
  \/ \E enabled \in BOOLEAN : Toggle(enabled)
  \/ \E text \in Texts : NluSpeak(text)
  \/ \E text \in Texts : OtherTTS(text)
  \/ RecStarted
  \/ RecEnded
  \/ RecFailed
  \/ RecResult
  \/ UttEnd
  \/ UttError
  \/ CancelledError
  \/ CancelledGone

SpecStream == Init /\ [][NextStream]_vars

\* The connection life cycle alone, with every reconnection counted: a start
\* command, the permission grant, the socket's events, the chunk events and
\* the two timers.
CStart == CommitCounted(startVoiceRecognition(S))
CGranted == gumPending > 0 /\ CommitCounted(startGranted(S))
COpen == ws = "CONNECTING" /\ CommitCounted(ws_onopen([S EXCEPT !.ws = "OPEN"]))
CFail ==
  /\ ws \in {"CONNECTING", "OPEN"}
  /\ CommitCounted(ws_onclose(ws_onerror([S EXCEPT !.ws = "CLOSED"]), 1006, FALSE))
CClosed(code) ==
  /\ closing[code] > 0
  /\ CommitCounted(ws_onclose([S EXCEPT !.closing[code] = @ - 1], code, code = 1000))
CChunk ==
  mediaRecorder = "recording" /\ CommitCounted(ondataavailable(S, handler, TRUE))
CLastChunk(h) ==
  /\ h \in finPending
  /\ CommitCounted(ondataavailable([S EXCEPT !.finPending = @ \ {h}], h, TRUE))
CReconnectTimer == reconnectTimers > 0 /\ CommitCounted(reconnectTimer(S))
CDeferredSend == deferredSends > 0 /\ CommitCounted(deferredSend(S))

\* The server accepts every connection.
NextConnect ==
  \/ CStart
  \/ CGranted
  \/ COpen
  \/ \E code \in CloseCodes : CClosed(code)
  \/ CChunk
  \/ \E h \in Handlers : CLastChunk(h)
  \/ CReconnectTimer
  \/ CDeferredSend

\* Connections may also fail.
NextReconnect == NextConnect \/ CFail

SpecReconnect == Init /\ [][NextReconnect]_vars

\* Every event that is due is delivered in the end: the grant, the open and
\* close events of the sockets, the chunk events and the timers.
FairConnect ==
  /\ WF_vars(CGranted)
  /\ WF_vars(COpen)
  /\ WF_vars(\E code \in CloseCodes : CClosed(code))
  /\ WF_vars(CChunk)
  /\ WF_vars(\E h \in Handlers : CLastChunk(h))
  /\ WF_vars(CReconnectTimer)
  /\ WF_vars(CDeferredSend)

SpecConnect == Init /\ [][NextConnect]_vars /\ FairConnect

\* The playback queue alone, with the extension disabled: announcements
\* arrive, their utterances call back, late or never.
MaxAnnouncements == 3

Announce(text) ==
  /\ EnvTurn /\ nRequests < MaxAnnouncements
  /\ CommitT(sendTTS([T EXCEPT !.nRequests = @ + 1], text))

NextQueue ==
  \/ Tick
  \/ TimerFires
  \/ \E text \in Texts : Announce(text)
  \/ UttEnd
  \/ UttError
  \/ CancelledError
  \/ CancelledGone

\* Time passes, and a timer that is due fires.
SpecQueue == Init /\ [][NextQueue]_vars /\ WF_vars(Tick \/ TimerFires)

\* A burst of announcements to a synthesizer that hangs: the queue fills.
MaxBurst == 4

Burst(text) ==
  /\ EnvTurn /\ nRequests < MaxBurst
  /\ CommitT(sendTTS([T EXCEPT !.nRequests = @ + 1], text))

NextBurst ==
  \/ Tick
  \/ TimerFires
  \/ \E text \in Texts : Burst(text)

SpecBurst == Init /\ [][NextBurst]_vars

\* The connection life cycle with stop commands, and with the reconnect
\* timers that were set before a stop told from those set after it.
TStart == CommitMarked(startVoiceRecognition(S), FALSE)
TStop == CommitMarked(stopVoiceRecognition(S), FALSE)
TStopResume == stopPending > 0 /\ Commit(stopResume(S))
TGranted == gumPending > 0 /\ CommitMarked(startGranted(S), FALSE)
TOpen == ws = "CONNECTING" /\ CommitMarked(ws_onopen([S EXCEPT !.ws = "OPEN"]), FALSE)
TFail ==
  /\ ws \in {"CONNECTING", "OPEN"}
  /\ CommitMarked(ws_onclose(ws_onerror([S EXCEPT !.ws = "CLOSED"]), 1006, FALSE), FALSE)
TClosed(code) ==
  /\ closing[code] > 0
  /\ CommitMarked(ws_onclose([S EXCEPT !.closing[code] = @ - 1], code, code = 1000),
                  FALSE)
TChunk ==
  mediaRecorder = "recording" /\ CommitMarked(ondataavailable(S, handler, TRUE), FALSE)
TLastChunk(h) ==
  /\ h \in finPending
  /\ CommitMarked(ondataavailable([S EXCEPT !.finPending = @ \ {h}], h, TRUE), FALSE)
TStaleTimer == staleTimers > 0 /\ CommitMarked(reconnectTimer(S), TRUE)
TFreshTimer == reconnectTimers > staleTimers /\ CommitMarked(reconnectTimer(S), FALSE)
TDeferredSend == deferredSends > 0 /\ CommitMarked(deferredSend(S), FALSE)

NextStops ==
  \/ TStart
  \/ TStop
  \/ TStopResume
  \/ TGranted
  \/ TOpen
  \/ TFail
  \/ \E code \in CloseCodes : TClosed(code)
  \/ TChunk
  \/ \E h \in Handlers : TLastChunk(h)
  \/ TStaleTimer
  \/ TFreshTimer
  \/ TDeferredSend

SpecStops == Init /\ [][NextStops]_vars

\* A session with its voice activity detection: commands, the socket
\* opening, the server's ready_for_next, chunks, analysis frames and time.
NextVad ==
  \/ MsgStart
  \/ MsgStop
  \/ VGranted
  \/ StopResume
  \/ SockOpen
  \/ RecvReady
  \/ \E nonEmpty \in BOOLEAN : Chunk(nonEmpty)
  \/ \E d \in Levels : Frame(d)
  \/ TimePasses

SpecVad == Init /\ [][NextVad]_vars

\* A network and a permission prompt that may stay silent for ever: only
\* what the script itself schedules is bound to happen (its two timers, and
\* the close event of a socket it has closed).
FairScript ==
  /\ WF_vars(CReconnectTimer)
  /\ WF_vars(CDeferredSend)
  /\ WF_vars(\E code \in CloseCodes : CClosed(code))

SpecStalled == Init /\ [][NextReconnect]_vars /\ FairScript

\* The whole streaming script with a server and a user that may stay
\* silent: only the script's own timers are bound to fire.
SpecQuiet ==
  /\ Init /\ [][NextStream]_vars
  /\ WF_vars(ReconnectTimer) /\ WF_vars(DeferredSend) /\ WF_vars(StopResume)

SpecTTS == Init /\ [][NextTTS]_vars

\* A speech synthesizer that hangs: no utterance ever calls onend or
\* onerror.  Time passes, and a timer that is due fires.
NextHung ==
  \/ Tick
  \/ TimerFires
  \/ \E v \in BOOLEAN : StorageLoaded(v)
  \/ \E text \in Texts : NluSpeak(text)
  \/ \E text \in Texts : OtherTTS(text)
  \/ RecStarted
  \/ RecEnded
  \/ CancelledGone

SpecHung == Init /\ [][NextHung]_vars /\ WF_vars(Tick \/ TimerFires)

\* A conversation with no toggle_feature message and a recognizer that does
\* not fail: announcements arrive, utterances call back or hang.
NextTalk ==
  \/ Tick
  \/ TimerFires
  \/ \E v \in BOOLEAN : StorageLoaded(v)
  \/ \E text \in Texts : NluSpeak(text)
  \/ \E text \in Texts : OtherTTS(text)
  \/ RecStarted
  \/ RecEnded
  \/ UttEnd
  \/ UttError
  \/ CancelledError
  \/ CancelledGone

\* Time passes, and the recognizer delivers its start event, and its end
\* event after stop().
FairTalk ==
  /\ WF_vars(Tick \/ TimerFires)
  /\ WF_vars(RecStarted)
  /\ WF_vars(recState = "stopping" /\ RecEnded)

SpecTalk == Init /\ [][NextTalk]_vars /\ FairTalk

\* Errors in a running conversation: a streaming session receives messages
\* it cannot parse, and the announcements of the other script fail or hang.
NextErrors ==
  \/ MsgStart
  \/ GumGranted
  \/ SockOpen
  \/ RecvFinal(FALSE, "absent")
  \/ RecvMalformed
  \/ Tick
  \/ TimerFires
  \/ \E v \in BOOLEAN : StorageLoaded(v)
  \/ \E text \in Texts : OtherTTS(text)
  \/ RecStarted
  \/ RecEnded
  \/ UttError
  \/ CancelledError
  \/ CancelledGone

SpecErrors == Init /\ [][NextErrors]_vars /\ FairTalk

\* ======================================================================
\* Properties of the streaming content script
\* ======================================================================

Streaming == isRecording /\ ~isProcessingCommand /\ shouldSendAudio

Idle ==
  /\ ~isRecording /\ ~isProcessingCommand /\ ~shouldSendAudio
  /\ ws = "null" /\ audioStream = "null" /\ ~audioContext
  /\ mediaRecorder # "recording"

\* C1: a handler sends an audio chunk on the WebSocket only while the
\* session is Streaming and no spoken reply is playing.
C1_ChunkOnlyWhileStreamingAndSilent ==
  Sent(out, "chunk") => Streaming /\ ~speaking

\* A call of stopVoiceRecognition returns: at once when the socket was not
\* open, after the 100 ms wait otherwise.
StopCompletes == StopResume \/ (MsgStop /\ stopPending' = stopPending)

\* C3: when an explicit stop completes, the session is Idle, whatever was
\* handled during the 100 ms wait after the STOP_RECORDING notice.
C3_StopLeavesIdle == [][StopCompletes => Idle']_vars

\* C6: without a successful open in between, the script opens at most
\* MAX_RECONNECT_ATTEMPTS sockets to reconnect, whichever handler opens them.
C6_AtMostFiveAttempts == attempts <= MAX_RECONNECT_ATTEMPTS

\* C9: once the microphone is granted after a start command, and with a
\* server that accepts every connection, the session eventually streams:
\* the socket is open and a chunk is sent on it.
C9_EventuallyStreaming ==
  (isRecording /\ mediaRecorder = "recording") ~> (ws = "OPEN" /\ Sent(out, "chunk"))

\* C10: every socket opened to reconnect has been counted in
\* reconnectAttempts, one increment for each.
C10_EveryAttemptCounted == attempts <= reconnectAttempts

streamState ==
  <<isRecording, isProcessingCommand, shouldSendAudio, isWebSocketConnected,
    ws, mediaRecorder, handler, audioStream, audioContext, analyser,
    isVoiceDetected, lastVoiceTime, reconnectAttempts,
    closing, orphans, finPending, speaking, gumPending, stopPending,
    reconnectTimers, deferredSends>>

\* C4: a second stopVoiceRecognition, called when the first has finished its
\* cleanup, changes no state variable and has no outbound effect.
C4_SecondStopSilent ==
  [][(Sent(out, "VOICE_RECOGNITION_ENDED") /\ Idle /\ MsgStop)
       => (streamState' = streamState /\ out' = <<>>)]_vars

\* The link is up and the recorder is running.
Capturing ==
  /\ isRecording /\ mediaRecorder = "recording"
  /\ ws = "OPEN" /\ isWebSocketConnected

\* C8: with the link up and the recorder running, a final transcript with no
\* inline reply puts the session in Processing; ready_for_next then returns
\* it to Streaming, the next chunk is sent at once, and neither step starts
\* speech output.
C8_ScenarioA ==
  [][/\ (Capturing /\ \E p \in {"true", "false", "absent"} : RecvFinal(FALSE, p))
          => (isProcessingCommand' /\ ~shouldSendAudio' /\ speaking' = speaking)
     /\ (Capturing /\ isProcessingCommand /\ RecvReady)
          => (Streaming' /\ Capturing' /\ speaking' = speaking)
     /\ (Capturing /\ Streaming /\ Chunk(TRUE))
          => Sent(out', "chunk")]_vars

\* ready_for_next has just returned the session to Streaming, no reply
\* being spoken.
C8_Witness ==
  /\ Sent(out, "READY_FOR_NEXT_COMMAND")
  /\ Streaming /\ Capturing /\ ~speaking

\* C26: a final transcript suppresses transmission and not capture: the
\* handler sets isProcessingCommand, clears shouldSendAudio and leaves
\* isRecording, the recorder, the stream, the socket and reconnectAttempts
\* as they are.
C26_FinalSuppressesSendingOnly ==
  [][(\E ai \in BOOLEAN : \E p \in {"true", "false", "absent"} : RecvFinal(ai, p))
       => /\ isProcessingCommand' /\ ~shouldSendAudio'
          /\ UNCHANGED <<isRecording, mediaRecorder, handler, audioStream, ws,
                         isWebSocketConnected, reconnectAttempts>>]_vars

\* A final transcript has been handled while the recorder was running: the
\* session is in Processing and still captures.
C26_Witness ==
  /\ Sent(out, "VOICE_RECOGNITION_RESULT")
  /\ isProcessingCommand /\ ~shouldSendAudio /\ Capturing

\* C27: ready_for_next handled while the session is Streaming changes none
\* of isRecording, isProcessingCommand, shouldSendAudio, the recorder, the
\* stream, the socket and reconnectAttempts.
C27_DuplicateReadyIdempotent ==
  [][(Streaming /\ RecvReady)
       => UNCHANGED <<isRecording, isProcessingCommand, shouldSendAudio,
                      mediaRecorder, handler, audioStream, ws,
                      isWebSocketConnected, reconnectAttempts>>]_vars

\* ready_for_next has been handled and answered with a keep-alive; the
\* session streams with the recorder startVoiceRecognition created.
C27_Witness ==
  /\ Sent(out, "READY_FOR_NEXT_COMMAND") /\ Sent(out, "KEEP_ALIVE")
  /\ Streaming /\ Capturing /\ handler = "full"

\* C28: an interim transcript changes none of isRecording,
\* isProcessingCommand, shouldSendAudio, the recorder, the stream and the
\* socket, whatever the state of the session.
C28_InterimChangesNothing ==
  [][RecvInterim
       => UNCHANGED <<isRecording, isProcessingCommand, shouldSendAudio,
                      mediaRecorder, handler, audioStream, ws,
                      isWebSocketConnected>>]_vars

\* A message has been handled without any effect while a command is being
\* processed: the session is still in Processing and captures.
C28_Witness ==
  /\ out = <<>> /\ Capturing
  /\ isProcessingCommand /\ ~shouldSendAudio

\* ======================================================================
\* Properties of the speech-recognition content script
\* ======================================================================

\* An announcement has been dequeued and is not spoken yet: none of its
\* onend, onerror and watchdog exists, so it holds the playback focus.
Dequeued == \E tm \in timers : tm.k \in {"ttsStop", "ttsSpeak"}

\* C2: while a dequeued announcement holds the focus, recognition.start()
\* is not called and the recognizer is not running.
C2_HalfDuplex ==
  Dequeued => /\ ~Sent(tout, "recognition.start")
              /\ recState # "running"

\* C5: a text submitted again within 2 s of its dispatch by handleNluQuery
\* is dropped, whichever path delivers it: it is neither queued nor dequeued.
C5_DuplicateDropped ==
  [][\A x \in Texts :
       (lastTTSText = x /\ sinceTTS < DupWindow /\ (NluSpeak(x) \/ OtherTTS(x)))
         => (ttsQueue' = ttsQueue /\ ~Sent(tout', "dequeue"))]_vars

WatchdogFires ==
  \E tm \in Due :
     /\ tm.k = "watchdog"
     /\ CommitT(watchdog(Fire(tm), \A o \in Watchdogs(T) : o.t <= tm.t))

Released == ~isProcessingTTS /\ ~pausedForTTS /\ ~manualStop

\* C7: with a synthesizer that never calls back, the watchdog releases the
\* focus (isProcessingTTS and both pause flags are cleared) and schedules
\* the queue; an acquisition is always released in the end, and a queued
\* announcement is always dequeued in the end.
C7_WatchdogReleases ==
  /\ [][WatchdogFires =>
          /\ Released'
          /\ Timer("next", D_nextWatchdog, "") \in timers']_vars
  /\ (isProcessingTTS ~> Released)
  /\ \A n \in 1..MaxQueue : (Len(ttsQueue) = n) ~> (Len(ttsQueue) < n)

\* The watchdog of a hung utterance has fired and released the focus.
C7_Witness == live > 0 /\ ttsTimeoutId = "expired" /\ Released

\* C11: a final user utterance is never discarded.  The script keeps no
\* utterance for later, so an utterance is kept only if the handler that
\* receives it sends it for NLU processing.
C11_UtteranceNotDiscarded == [][RecResult => Sent(tout', "NLU_QUERY")]_vars

\* C12: after ready_for_next is handled the session records again on an
\* active stream, or a restart of the capture is under way (getUserMedia
\* has been requested).
C12_ReadyRestartsCapture ==
  [][RecvReady => \/ (isRecording' /\ mediaRecorder' = "recording"
                         /\ audioStream' = "active")
                  \/ gumPending' > gumPending]_vars

\* C13: a rejected getUserMedia is reported as VOICE_RECOGNITION_ERROR and
\* leaves the session with no recording, no capture and no transport.
C13_FailedStartLeavesIdle ==
  [][GumRejected => /\ Sent(out', "VOICE_RECOGNITION_ERROR")
                    /\ ~isRecording'
                    /\ mediaRecorder' # "recording" /\ audioStream' # "active"
                    /\ ws' = "null"]_vars

\* C14: a close event with code 1000 schedules no reconnection and resets
\* reconnectAttempts; a stop that has a socket closes it with code 1000; a
\* close that comes from the server while the session records, below the
\* ceiling, is treated as abnormal: a reconnection is scheduled.
C14_NormalAndAbnormalClose ==
  [][/\ (SockClosed(1000) \/ SockServerClose(1000))
          => (~Sent(out', "setTimeout reconnect") /\ reconnectAttempts' = 0)
     /\ ((MsgStop \/ StopResume) /\ ws # "null" /\ ws' = "null")
          => Sent(out', "close 1000")
     /\ ((\E code \in CloseCodes : SockServerClose(code))
           /\ isRecording /\ reconnectAttempts < MAX_RECONNECT_ATTEMPTS)
          => Sent(out', "setTimeout reconnect")]_vars

\* An announcement has released the focus and its restart of the
\* recognition is scheduled.
RestartScheduled == \E tm \in timers : tm.k \in {"restart", "restartWatchdog"}

\* C15: after an announcement has released the focus with the extension
\* enabled, the recognizer is eventually running again, with no toggle,
\* unless the stored setting disables the extension in the meantime.
C15_ListeningResumes ==
  (extensionIsEnabled /\ RestartScheduled)
     ~> (recState = "running" \/ ~extensionIsEnabled)

\* An announcement was made and has released the focus, no timer is
\* left, and the recognizer runs although no toggle ever arrived.
C15_Witness ==
  /\ extensionIsEnabled /\ recState = "running" /\ Released
  /\ nRequests > 0 /\ timers = {} /\ nToggles = 0

\* C16: no wait lasts for ever: a socket that is connecting leaves that
\* state, and a pending microphone request is settled, by the script's own
\* timeout if the network or the prompt stays silent.
C16_NoIndefiniteWait ==
  /\ (ws = "CONNECTING") ~> (ws # "CONNECTING")
  /\ (gumPending > 0) ~> (gumPending = 0)

\* C17: while a dequeued announcement waits to be spoken (it holds the
\* focus and none of its callbacks exists yet), no other announcement is
\* dequeued.
C17_SingleFocus == [][Dequeued => ~Sent(tout', "dequeue")]_vars

\* C18: setupWebSocket, called by the reconnect timer of a recording
\* session or by a start command while the socket is OPEN or CONNECTING,
\* creates no socket, closes none, and leaves ws, reconnectAttempts and
\* isWebSocketConnected as they are.
C18_ConnectIdempotent ==
  [][(/\ ws \in {"OPEN", "CONNECTING"}
      /\ (ReconnectTimer /\ isRecording) \/ (MsgStart /\ ~isRecording))
       => /\ ~Sent(out', "new WebSocket")
          /\ closing' = closing /\ ws' = ws
          /\ reconnectAttempts' = reconnectAttempts
          /\ isWebSocketConnected' = isWebSocketConnected]_vars

\* C19: the timer that ws.onclose sets for reconnection attempt k (the
\* value of reconnectAttempts once the handler has run, 1..5) has the delay
\* min(1000 k, 5000) ms: never above 5000 ms and never below the delay of
\* attempt k - 1.
C19_LinearBackoff ==
  \A j \in 1..Len(out) :
     out[j].k = "setTimeout reconnect" =>
       LET k == reconnectAttempts
       IN /\ k \in 1..MAX_RECONNECT_ATTEMPTS
          /\ out[j].n = IF 1000 * k <= 5000 THEN 1000 * k ELSE 5000
          /\ out[j].n <= 5000
          /\ k > 1 => out[j].n >= (IF 1000 * (k - 1) <= 5000
                                   THEN 1000 * (k - 1) ELSE 5000)

\* The timer of the fifth attempt has been set, with the longest delay.
C19_Witness ==
  reconnectAttempts = MAX_RECONNECT_ATTEMPTS /\ Sent(out, "setTimeout reconnect")

\* C20: a close event handled while isRecording is false sets no reconnect
\* timer, and a reconnect timer that was set before a stop and fires after
\* it creates no socket.
C20_ReconnectOnlyWhileListening ==
  [][/\ ((TFail \/ \E code \in CloseCodes : TClosed(code)) /\ ~isRecording)
          => ~Sent(out', "setTimeout reconnect")
     /\ TStaleTimer => ~Sent(out', "new WebSocket")]_vars

\* C21: a chunk that ondataavailable could not send, because the link was
\* not connected, is dropped: the callback it left behind sends nothing.
C21_UnsentChunkDropped == [][DeferredSend => ~Sent(out', "chunk")]_vars

\* C22: speakText accepts a text that differs from the queue tail when no
\* announcement has completed within the suppression window (a completion
\* leaves its processTTSQueue timer pending for at least that long): it is
\* appended, or dequeued at once; in particular when the text equals an
\* earlier entry of the queue.
C22_OnlyTailSuppressed ==
  [][\A x \in Texts :
       (/\ Burst(x)
        /\ Len(ttsQueue) > 0
        /\ ttsQueue[Len(ttsQueue)] # x
        /\ ~\E tm \in timers : tm.k = "next")
         => \/ Len(ttsQueue') = Len(ttsQueue) + 1
            \/ Sent(tout', "dequeue")]_vars

\* C23: announcements leave the queue in the order they were accepted, each
\* once: a dequeue takes the head of the queue (of the queue with the new
\* text appended, inside speakText) and leaves the rest; no other step
\* removes or reorders an entry; and a queued announcement is dequeued in
\* the end.
C23_Fifo ==
  /\ [][/\ (TimerFires /\ Sent(tout', "dequeue"))
            => /\ ttsQueue # <<>>
               /\ Timer("ttsStop", D_ttsStop, Head(ttsQueue)) \in timers'
               /\ ttsQueue' = Tail(ttsQueue)
        /\ \A x \in Texts :
             (Announce(x) /\ Sent(tout', "dequeue"))
               => LET q == Append(ttsQueue, x)
                  IN /\ Timer("ttsStop", D_ttsStop, Head(q)) \in timers'
                     /\ ttsQueue' = Tail(q)
        /\ ~Sent(tout', "dequeue")
             => \/ ttsQueue' = ttsQueue
                \/ \E x \in Texts : ttsQueue' = Append(ttsQueue, x)]_vars
  /\ \A n \in 1..MaxQueue : (Len(ttsQueue) = n) ~> (Len(ttsQueue) < n)

\* The scheduled processTTSQueue has taken the first of two queued
\* announcements.
C23_Witness ==
  /\ Sent(tout, "dequeue") /\ ~Sent(tout, "TTS")
  /\ Len(ttsQueue) = 1
  /\ \E tm \in timers : tm.k = "ttsStop" /\ tm.t = D_ttsStop /\ tm.x # ttsQueue[1]

\* C24: utterance.onerror releases the focus (isProcessingTTS and the two
\* pause flags are cleared, no watchdog stays armed), neither queues nor
\* speaks the failed text again, and schedules processTTSQueue after the
\* error delay.
C24_ErrorReleases ==
  [][(UttError \/ CancelledError)
       => /\ Released'
          /\ ttsTimeoutId' = "null" /\ Watchdogs(T)' = {}
          /\ ttsQueue' = ttsQueue
          /\ ~Sent(tout', "speak") /\ ~Sent(tout', "dequeue")
          /\ Timer("next", D_nextError, "") \in timers']_vars

\* C25: toggle_feature with enabled = false clears the pending
\* announcements: the queue is empty once the handler has run.
C25_StopClearsQueue == [][Toggle(FALSE) => ttsQueue' = <<>>]_vars

\* C29: protocol and playback errors do not end the session.  A message
\* that cannot be parsed changes no variable of the streaming session.  A
\* synthesis error or a watchdog timeout leaves the streaming session, the
\* enabled flag and the recognizer as they are and, with the extension
\* enabled, schedules the restart of the recognition, which is running
\* again in the end.
C29_ErrorsAbsorbed ==
  /\ [][RecvMalformed => streamState' = streamState]_vars
  /\ [][(UttError \/ CancelledError \/ WatchdogFires)
          => /\ streamState' = streamState
             /\ extensionIsEnabled' = extensionIsEnabled
             /\ recState' = recState
             /\ extensionIsEnabled => RestartScheduled']_vars
  /\ (extensionIsEnabled /\ RestartScheduled)
        ~> (recState = "running" \/ ~extensionIsEnabled)

\* An utterance has just failed while the session streams: the extension
\* is still enabled and the restart of the recognition is scheduled.
C29_Witness ==
  /\ extensionIsEnabled /\ Released
  /\ Timer("restart", D_restartError, "") \in timers
  /\ isRecording /\ ws = "OPEN"

\* C30: keep-alive markers are sent periodically: if from some time on the
\* socket stays open and no command is being processed, a keep-alive is
\* sent again and again.
C30_KeepAlivePeriodic ==
  (<>[](ws = "OPEN" /\ ~isProcessingCommand))
     => []<><<Sent(out', "KEEP_ALIVE")>>_vars

\* ---------------------------------------------------------------------
\* Properties of the voice activity detection (popup.tsx 680-738)
\* ---------------------------------------------------------------------

C32_VadDoesNotGate ==
  LET Low(s) == [s EXCEPT !.isVoiceDetected = FALSE, !.lastVoiceTime = 0]
      Times == {n \in 0..MaxNow : n % FrameStep = 0}
  IN /\ \A d \in Levels :
          [Low(monitorVoiceActivity(S, d)) EXCEPT !.monitoring = monitoring] = Low(S)
     /\ \A b \in BOOLEAN : \A n \in Times :
          LET V == [S EXCEPT !.isVoiceDetected = b, !.lastVoiceTime = n]
          IN /\ \A h \in Handlers : \A nonEmpty \in BOOLEAN :
                  Low(ondataavailable(V, h, nonEmpty)) = Low(ondataavailable(S, h, nonEmpty))
             /\ Low(deferredSend(V)) = Low(deferredSend(S))
             /\ Low(startVoiceRecognition(V)) = Low(startVoiceRecognition(S))
             /\ Low(startGranted(V)) = Low(startGranted(S))
             /\ Low(stopVoiceRecognition(V)) = Low(stopVoiceRecognition(S))
             /\ Low(stopResume(V)) = Low(stopResume(S))
             /\ Low(ws_onopen(V)) = Low(ws_onopen(S))
             /\ Low(onmessage_ready(V)) = Low(onmessage_ready(S))

\* A chunk has just been sent while the monitor, which had detected speech
\* before, reports silence.
C32_Witness ==
  /\ Sent(out, "chunk") /\ analyser
  /\ ~isVoiceDetected /\ lastVoiceTime > 0

\* ---------------------------------------------------------------------
\* Properties of the connection bookkeeping (popup.tsx 223-275)
\* ---------------------------------------------------------------------

\* C33: the reconnection counter stays between 0 and 5, whatever opens,
\* closes, chunks, starts and stops the session sees.
C33_AttemptsBounded == reconnectAttempts \in 0..5

\* The fifth reconnection in a row has just been scheduled.
C33_Witness ==
  /\ reconnectAttempts = 5 /\ isRecording
  /\ Sent(out, "setTimeout reconnect")

\* C34: the connection flag describes the current socket.  Whenever
\* isWebSocketConnected is true, ws refers to an open socket; and the close
\* event of a socket that setupWebSocket has replaced by a newer one
\* changes neither isWebSocketConnected nor reconnectAttempts.
C34_FlagDescribesSocket ==
  /\ [](isWebSocketConnected => ws = "OPEN")
  /\ [][\A code \in CloseCodes :
          (SockClosed(code) /\ ws \in {"CONNECTING", "OPEN"})
            => /\ isWebSocketConnected' = isWebSocketConnected
               /\ reconnectAttempts' = reconnectAttempts]_vars

\* C35: at most one capture is live.  No recorder is left recording on a
\* stream of its own beside the recorder and the stream the session holds,
\* whatever way start commands, the grants of the microphone and the
\* restarts on ready_for_next interleave.
C35_SingleCapture == ~(mediaRecorder = "recording" /\ orphans # {})

\* ---------------------------------------------------------------------
\* Properties of the enabled flag (part_000 294-322, 449-536, 584-600)
\* ---------------------------------------------------------------------

\* C36: the recognition is never started while the extension is disabled.
\* No handler and no timer callback calls recognition.start() and leaves
\* with extensionIsEnabled false.
C36_NoStartWhileDisabled ==
  [][(Sent(tout', "recognition.start") \/ Sent(tout', "recognition.start throws"))
       => extensionIsEnabled']_vars

\* ---------------------------------------------------------------------
\* Properties of the service worker (background.ts)
\* ---------------------------------------------------------------------

\* C37: while isEnabled is false, START_VOICE_RECOGNITION and VOICE_COMMAND
\* are answered with success=false and nothing goes to a tab or to the
\* backend; STOP_VOICE_RECOGNITION goes to the active tab whatever
\* isEnabled is; and a toggle from enabled to disabled, once it is saved,
\* sends STOP_VOICE_RECOGNITION to every tab.
C37_DisabledRejects ==
  /\ [][((onMessage("START_VOICE_RECOGNITION") \/ onMessage("VOICE_COMMAND"))
          /\ ~isEnabled)
         => bout' = <<[k |-> "respond success=false", n |-> 0]>>]_vars
  /\ [][onMessage("STOP_VOICE_RECOGNITION")
         => Sent(bout', "tab STOP_VOICE_RECOGNITION")]_vars
  /\ [][\A i \in 1..MaxStorageOps :
          (LocalSetDone(i) /\ storageOps[i].prev /\ ~storageOps[i].v)
            => Sent(bout', "every tab STOP_VOICE_RECOGNITION")]_vars

\* C39: each TOGGLE_ENABLED flips the stored flag once.  When no call on
\* the plasmo storage is in flight the flag is what the handlers leave
\* when they run one after the other, and no TOGGLE_ENABLED is answered
\* by anything but the value its handler stores.
C39_ToggleFlipsOnce ==
  /\ []((\A j \in 1..Len(storageOps) :
            storageOps[j].k \notin {"plasmo.get", "plasmo.set"})
        => (plasmoStore = "true") = expected)
  /\ [][onMessage("TOGGLE_ENABLED")
         => ~Sent(bout', "respond Unknown message type")]_vars

\* C40: the flag in memory and the flag in chrome.storage.local agree
\* when no call on chrome.storage.local is in flight.
C40_MemoryAgreesWithStore ==
  (\A j \in 1..Len(storageOps) : storageOps[j].k \notin {"local.get", "local.set"})
     => isEnabled = (localStore = "true")

\* C38: a browser action that requires a follow-up and succeeds is always
\* followed by its announcement, whatever value it returned: the follow-up
\* is scheduled, and it announces the count N as 'You have N unread
\* emails.' (0 included) and a text by a sentence of its own (the empty
\* text included).
C38_FollowUpAlways ==
  /\ [][(ActionAnswered /\ followUp.requires /\ followUp.success)
         => followUp'.phase = "scheduled"]_vars
  /\ [][FollowUp
         => /\ followUp'.speak.k # "none"
            /\ followUp.data.t = "number"
                 => followUp'.speak = [k |-> "You have N unread emails.",
                                       v |-> followUp.data.v]]_vars

====
